---- MODULE Spec2Model ----
(***************************************************************************)
(* A model of extract_fft_pdf_to_excel.py: the text normalizer, the header *)
(* extractor, the two match-row strategies (line matcher and table         *)
(* reconstructor) and main's merge / fallback / write pipeline.            *)
(*                                                                         *)
(* Text is modelled character by character: a Python str is a sequence of  *)
(* one-character strings, and the regular expressions of the source are    *)
(* interpreted by a backtracking matcher with Python's priority order      *)
(* (greedy / lazy quantifiers, ordered alternation, leftmost search).      *)
(***************************************************************************)
EXTENDS Integers, Sequences, FiniteSets, TLC

(***************************************************************************)
(* Characters and strings                                                  *)
(***************************************************************************)

\* A str literal as a sequence of characters.
Chars(s) == [i \in 1..Len(s) |-> SubSeq(s, i, i)]

\* Characters that have no ASCII spelling are named.
NBSP == "<U+00A0>"
ENDASH == "<U+2013>"
EACUTE == "<U+00E9>"
EACUTEUP == "<U+00C9>"

\* Python's None, for Optional[str] values (no str is equal to it).
None == <<"<None>">>

LowerLetters == Chars("abcdefghijklmnopqrstuvwxyz")
UpperLetters == Chars("ABCDEFGHIJKLMNOPQRSTUVWXYZ")
Letters == {LowerLetters[i] : i \in 1..26} \cup {UpperLetters[i] : i \in 1..26}
                \cup {EACUTE, EACUTEUP}
Digits == {"0", "1", "2", "3", "4", "5", "6", "7", "8", "9"}

\* str.isspace() / the regex class \s on str patterns.
Whitespace == {" ", "\t", "\n", "\r", "\f", NBSP}

\* The regex class \w on str patterns.
WordChars == Letters \cup Digits \cup {"_"}

\* The other case of a cased character (re.IGNORECASE compares both cases).
SwapCase(c) ==
    IF \E i \in 1..26 : LowerLetters[i] = c
    THEN UpperLetters[CHOOSE i \in 1..26 : LowerLetters[i] = c]
    ELSE IF \E i \in 1..26 : UpperLetters[i] = c
    THEN LowerLetters[CHOOSE i \in 1..26 : UpperLetters[i] = c]
    ELSE IF c = EACUTE THEN EACUTEUP
    ELSE IF c = EACUTEUP THEN EACUTE
    ELSE c

\* str.strip()
Strip(s) ==
    LET keep == {i \in 1..Len(s) : s[i] \notin Whitespace}
    IN  IF keep = {} THEN <<>>
        ELSE SubSeq(s, CHOOSE i \in keep : \A j \in keep : i <= j,
                       CHOOSE i \in keep : \A j \in keep : i >= j)

(***************************************************************************)
(* Regular expressions                                                     *)
(*                                                                         *)
(* A pattern is a tree of records; Match returns every way the pattern can *)
(* match at a position, in the order Python's backtracking tries them, so  *)
(* the head of the list is the match re returns.                           *)
(***************************************************************************)

RSet(S) == [t |-> "set", set |-> S]
RDot == [t |-> "dot"]
RBol == [t |-> "bol"]
REol == [t |-> "eol"]
RWordB == [t |-> "wordb"]
RSeq(kids) == [t |-> "seq", kids |-> kids]
RAlt(kids) == [t |-> "alt", kids |-> kids]
RGroup(n, kid) == [t |-> "group", n |-> n, kid |-> kid]
\* hi = -1: unbounded.
RRep(kid, lo, hi, lazy) == [t |-> "rep", kid |-> kid, lo |-> lo, hi |-> hi, lazy |-> lazy]

RStar(kid) == RRep(kid, 0, -1, FALSE)
RPlus(kid) == RRep(kid, 1, -1, FALSE)
ROpt(kid) == RRep(kid, 0, 1, FALSE)
RPlusLazy(kid) == RRep(kid, 1, -1, TRUE)

\* A literal, case-sensitive and under re.IGNORECASE.
RLit(str) == RSeq([k \in 1..Len(str) |-> RSet({str[k]})])
RLitI(str) == RSeq([k \in 1..Len(str) |-> RSet({str[k], SwapCase(str[k])})])

NoGroup == <<-1, -1>>
NoCaps == [g \in 1..4 |-> NoGroup]

IsWordAt(s, i) == i >= 1 /\ i <= Len(s) /\ s[i] \in WordChars

\* Whether the one-character pattern r (a class or the dot) accepts c.
Accepts(r, c) == IF r.t = "set" THEN c \in r.set ELSE c # "\n"

\* The number of consecutive characters of s from index i that r accepts.
RunLength(r, s, i) ==
    CHOOSE n \in 0..(Len(s) + 1 - i) :
        /\ \A j \in 0..(n - 1) : Accepts(r, s[i + j])
        /\ (i + n > Len(s) \/ ~Accepts(r, s[i + n]))

RECURSIVE Match(_, _, _, _)
RECURSIVE MatchSeq(_, _, _, _, _)
RECURSIVE MatchAlt(_, _, _, _, _)
RECURSIVE MatchRep(_, _, _, _, _)
RECURSIVE Flatten(_, _, _)

\* The concatenation f[lo] \o ... \o f[hi] of a list of lists.
Flatten(f, lo, hi) ==
    IF lo > hi THEN <<>>
    ELSE IF lo = hi THEN f[lo]
    ELSE LET mid == (lo + hi) \div 2
         IN  Flatten(f, lo, mid) \o Flatten(f, mid + 1, hi)

\* A repeat of a one-character pattern: it can stop after any count between
\* lo and the run length (capped by hi), longest first unless lazy.
MatchRepChar(r, s, i, caps) ==
    LET run == RunLength(r.kid, s, i)
        top == IF r.hi = -1 \/ run < r.hi THEN run ELSE r.hi
        cnt == IF top >= r.lo THEN top - r.lo + 1 ELSE 0
    IN  [k \in 1..cnt |->
            [pos |-> i + (IF r.lazy THEN r.lo + k - 1 ELSE top - k + 1), caps |-> caps]]

\* Every match of r in s starting at index i (1-based), as a list of
\* [pos |-> index after the match, caps |-> capture spans], best first.
Match(r, s, i, caps) ==
    CASE r.t \in {"set", "dot"} ->
            IF i <= Len(s) /\ Accepts(r, s[i])
            THEN <<[pos |-> i + 1, caps |-> caps]>> ELSE <<>>
      [] r.t = "bol" ->
            IF i = 1 \/ s[i - 1] = "\n"
            THEN <<[pos |-> i, caps |-> caps]>> ELSE <<>>
      [] r.t = "eol" ->
            IF i = Len(s) + 1 \/ s[i] = "\n"
            THEN <<[pos |-> i, caps |-> caps]>> ELSE <<>>
      [] r.t = "wordb" ->
            IF IsWordAt(s, i - 1) # IsWordAt(s, i)
            THEN <<[pos |-> i, caps |-> caps]>> ELSE <<>>
      [] r.t = "seq" -> MatchSeq(r.kids, 1, s, i, caps)
      [] r.t = "alt" -> MatchAlt(r.kids, 1, s, i, caps)
      [] r.t = "group" ->
            LET inner == Match(r.kid, s, i, caps)
            IN  [k \in 1..Len(inner) |->
                    [pos |-> inner[k].pos,
                     caps |-> [inner[k].caps EXCEPT ![r.n] = <<i, inner[k].pos>>]]]
      [] r.t = "rep" ->
            IF r.kid.t \in {"set", "dot"} THEN MatchRepChar(r, s, i, caps)
            ELSE MatchRep(r, 0, s, i, caps)

\* kids[k..] in sequence: each way kids[k] matches, continued by the rest.
MatchSeq(kids, k, s, i, caps) ==
    IF k > Len(kids) THEN <<[pos |-> i, caps |-> caps]>>
    ELSE LET ms == Match(kids[k], s, i, caps)
         IN  Flatten([j \in 1..Len(ms) |-> MatchSeq(kids, k + 1, s, ms[j].pos, ms[j].caps)],
                     1, Len(ms))

\* kids[k..] as ordered alternatives.
MatchAlt(kids, k, s, i, caps) ==
    IF k > Len(kids) THEN <<>>
    ELSE Match(kids[k], s, i, caps) \o MatchAlt(kids, k + 1, s, i, caps)

\* r.kid repeated, n iterations done so far (an empty iteration ends it).
MatchRep(r, n, s, i, caps) ==
    LET stop == IF n >= r.lo THEN <<[pos |-> i, caps |-> caps]>> ELSE <<>>
        ms == IF r.hi = -1 \/ n < r.hi THEN Match(r.kid, s, i, caps) ELSE <<>>
        more == Flatten([j \in 1..Len(ms) |->
                            IF ms[j].pos > i
                            THEN MatchRep(r, n + 1, s, ms[j].pos, ms[j].caps)
                            ELSE <<>>],
                        1, Len(ms))
    IN  IF r.lazy THEN stop \o more ELSE more \o stop

\* The best match at the leftmost index that has one, found[i] being the
\* matches starting at index i: a one-element list, or the empty list.
Leftmost(found) ==
    LET starts == {i \in 1..Len(found) : found[i] # <<>>}
    IN  IF starts = {} THEN <<>>
        ELSE LET i == CHOOSE k \in starts : \A j \in starts : k <= j
             IN  <<[start |-> i, pos |-> found[i][1].pos, caps |-> found[i][1].caps]>>

\* pattern.search(s): the match at the leftmost index that has one, as a
\* one-element list; the empty list when re.search returns None.
Search(r, s) == Leftmost([i \in 1..(Len(s) + 1) |-> Match(r, s, i, NoCaps)] \o <<>>)

\* m.group(n): None for a group that took no part in the match.
Group(m, s, n) ==
    IF m.caps[n] = NoGroup THEN None
    ELSE SubSeq(s, m.caps[n][1], m.caps[n][2] - 1)

\* The Python idiom `v or d` on an Optional[str].
OrElse(v, d) == IF v = None \/ v = <<>> THEN d ELSE v

\* The indices reached from those of R by following jump, jump being closed
\* under composition a round at a time.
RECURSIVE Orbit(_, _)
Orbit(R, jump) ==
    LET R2 == R \cup {jump[i] : i \in R}
    IN  IF R2 = R THEN R
        ELSE Orbit(R2, [i \in 1..Len(jump) |-> jump[jump[i]]] \o <<>>)

\* The index after the best match of r at index i of s; i when there is none.
MatchEnd(ms, i) == IF ms # <<>> THEN ms[1].pos ELSE i

\* The scan of re.sub over s, end[i] being the index after the match at i:
\* from index 1, past a match where there is one (replaced by repl) and past
\* one character where there is none (kept).
Replaced(end, repl, s) ==
    LET n == Len(s)
        jump == [i \in 1..(n + 1) |->
                    IF i > n THEN i ELSE IF end[i] > i THEN end[i] ELSE i + 1] \o <<>>
        scanned == Orbit({1}, jump)
    IN  Flatten([i \in 1..n |->
                    IF i \notin scanned THEN <<>>
                    ELSE IF end[i] > i THEN repl ELSE <<s[i]>>],
                1, n)

\* re.sub(r, repl, s) for a pattern that matches no empty string.
Sub(r, repl, s) ==
    Replaced([i \in 1..Len(s) |-> MatchEnd(Match(r, s, i, NoCaps), i)] \o <<>>, repl, s)

(***************************************************************************)
(* Text normalizer                                                         *)
(***************************************************************************)

\* str.replace(old, new) for a one-character old.
ReplaceChar(s, old, new) == [k \in 1..Len(s) |-> IF s[k] = old THEN new ELSE s[k]]

tab_cr_run == RPlus(RSet({"\t", "\r"}))
ws_before_nl == RSeq(<<RPlus(RSet(Whitespace)), RSet({"\n"})>>)
ws_after_nl == RSeq(<<RSet({"\n"}), RPlus(RSet(Whitespace))>>)
\* Faulty variant of ws_run: two whitespace characters, not two or more.
ws_pair == RRep(RSet(Whitespace), 2, 2, FALSE)
ws_run == RRep(RSet(Whitespace), 2, -1, FALSE)

clean_text(text) ==
    LET t1 == ReplaceChar(text, NBSP, " ")
        t2 == Sub(tab_cr_run, <<" ">>, t1)
        t3 == Sub(ws_before_nl, <<"\n">>, t2)
        t4 == Sub(ws_after_nl, <<"\n">>, t3)
        t5 == Sub(ws_run, <<" ">>, t4)
    IN  Strip(t5)

(***************************************************************************)
(* The three line rules                                                    *)
(***************************************************************************)

Ws == RSet(Whitespace)
Digit09 == RSet(Digits)
Dashes == RSet({"-", ENDASH})
ColonDash == RSet({":", "-"})

score_label ==
    ROpt(RSeq(<<RAlt(<<RLitI(Chars("score")),
                       RSeq(<<RLitI(Chars("R")),
                              RAlt(<<RLitI(<<EACUTE>> \o Chars("sultat")),
                                     RLitI(Chars("esultat"))>>)>>)>>),
                RStar(Ws), ColonDash>>))

set_token == RSeq(<<RRep(Digit09, 1, 2, FALSE), RSet({"-"}), RRep(Digit09, 1, 2, FALSE)>>)

set_scores(n) == RGroup(n, RSeq(<<set_token, RRep(RSeq(<<RPlus(Ws), set_token>>), 0, 3, FALSE)>>))

player_sep == RAlt(<<RLitI(Chars("vs")), RLitI(Chars("contre")), Dashes>>)

\* The grammar shared by single_re and double_re after the keyword.
labelled_tail ==
    <<RStar(Ws), ROpt(RGroup(1, RPlus(Digit09))), RStar(Ws), ROpt(ColonDash), RStar(Ws),
      RGroup(2, RPlusLazy(RDot)), RPlus(Ws), player_sep, RPlus(Ws),
      RGroup(3, RPlusLazy(RDot)), RStar(Ws), score_label, RStar(Ws), set_scores(4), REol>>

single_re ==
    RSeq(<<RBol, RAlt(<<RLitI(Chars("Simple")), RLitI(Chars("SIMPLE")), RLitI(Chars("S"))>>)>>
         \o labelled_tail)

double_re ==
    RSeq(<<RBol, RAlt(<<RLitI(Chars("Double")), RLitI(Chars("DOUBLE")), RLitI(Chars("D"))>>)>>
         \o labelled_tail)

table_row_re ==
    RSeq(<<RBol, RGroup(1, RPlusLazy(RDot)), RPlus(Ws), Dashes, RPlus(Ws),
           RGroup(2, RPlusLazy(RDot)), RPlus(Ws), set_scores(3), REol>>)

MatchRow(date, lieu, equipe_dom, equipe_ext, match_type, match_index, joueur_dom, joueur_ext, score) ==
    [date |-> date, lieu |-> lieu, equipe_dom |-> equipe_dom, equipe_ext |-> equipe_ext,
     match_type |-> match_type, match_index |-> match_index,
     joueur_dom |-> joueur_dom, joueur_ext |-> joueur_ext, score |-> score]

\* (m.group(n) or "").strip() or None
StripOrNone(v) == OrElse(Strip(OrElse(v, <<>>)), None)

\* re.sub(r"\s+", " ", (m.group(n) or "").strip()) or None
ScoreOrNone(v) == OrElse(Sub(RPlus(Ws), <<" ">>, Strip(OrElse(v, <<>>))), None)

\* The row of a line the Simple or the Double rule matched.
LabelledRow(m, l, type, defaults) ==
    MatchRow(defaults[1], defaults[2], defaults[3], defaults[4],
             type, StripOrNone(Group(m, l, 1)),
             Strip(Group(m, l, 2)), Strip(Group(m, l, 3)), ScoreOrNone(Group(m, l, 4)))

\* The row of a line the generic rule matched.
GenericRow(m, l, defaults) ==
    MatchRow(defaults[1], defaults[2], defaults[3], defaults[4],
             None, None,
             Strip(Group(m, l, 1)), Strip(Group(m, l, 2)), ScoreOrNone(Group(m, l, 3)))

SIMPLE == Chars("Simple")
DOUBLE == Chars("Double")

\* Faulty variant of FirstRule: the generic rule is tried first.
FirstRule_generic_first(ms, md, mt, l, defaults) ==
    IF mt # <<>> THEN <<GenericRow(mt[1], l, defaults)>>
    ELSE IF ms # <<>> THEN <<LabelledRow(ms[1], l, SIMPLE, defaults)>>
    ELSE IF md # <<>> THEN <<LabelledRow(md[1], l, DOUBLE, defaults)>>
    ELSE <<>>

\* The if / elif / elif chain on the three search results of the stripped
\* line l: the row of the first rule that matched, as a list of one row, or
\* the empty list when none did.
FirstRule(ms, md, mt, l, defaults) ==
    IF ms # <<>> THEN <<LabelledRow(ms[1], l, SIMPLE, defaults)>>
    ELSE IF md # <<>> THEN <<LabelledRow(md[1], l, DOUBLE, defaults)>>
    ELSE IF mt # <<>> THEN <<GenericRow(mt[1], l, defaults)>>
    ELSE <<>>

\* The three rules on a stripped line; a blank line is skipped.
Rules(l, defaults) ==
    IF l = <<>> THEN <<>>
    ELSE FirstRule(Search(single_re, l), Search(double_re, l), Search(table_row_re, l),
                   l, defaults)

\* The nested function of parse_matches_from_tables: the row of a candidate,
\* as a list of one row, or the empty list for None.
try_parse_line(candidate, defaults) == Rules(Strip(candidate), defaults)

\* The per-line body of parse_matches' loop: the rows the line appends
\* (one row, or none for a blank or unmatched line).
parse_line(line, defaults) == Rules(Strip(line), defaults)

\* The composite key of a row: each field, or "" when it is None.
Key(r) ==
    <<OrElse(r.match_type, <<>>), OrElse(r.match_index, <<>>), OrElse(r.joueur_dom, <<>>),
      OrElse(r.joueur_ext, <<>>), OrElse(r.score, <<>>)>>

\* The dedup loop over rows[i..]: the indices of the rows appended to uniq
\* so far (the row objects themselves are appended) and the keys seen.
RECURSIVE KeptFrom(_, _, _, _)
KeptFrom(rows, i, kept, seen) ==
    IF i > Len(rows) THEN kept
    ELSE IF Key(rows[i]) \in seen THEN KeptFrom(rows, i + 1, kept, seen)
    ELSE KeptFrom(rows, i + 1, Append(kept, i), seen \cup {Key(rows[i])})

\* The rows at the indices kept.
Pick(rows, kept) == [k \in 1..Len(kept) |-> rows[kept[k]]] \o <<>>

\* Faulty variant of Uniq: no dedup, one row per matched line.
Uniq_none(rows) == rows

\* The dedup that ends parse_matches and parse_matches_from_tables.
Uniq(rows) == Pick(rows, KeptFrom(rows, 1, <<>>, {}))

(***************************************************************************)
(* Header extractor                                                        *)
(***************************************************************************)

date_re ==
    RSeq(<<RWordB,
           RGroup(1, RSeq(<<RRep(Digit09, 2, 2, FALSE), RSet({"/"}), RRep(Digit09, 2, 2, FALSE),
                            RSet({"/"}), RRep(Digit09, 4, 4, FALSE)>>)),
           RWordB>>)

team_re ==
    RSeq(<<RBol, RGroup(1, RPlusLazy(RDot)), RStar(Ws), RAlt(<<Dashes, RLit(Chars("vs"))>>),
           RStar(Ws), RGroup(2, RPlusLazy(RDot)), REol>>)

lieu_re ==
    RSeq(<<RBol, RAlt(<<RLitI(Chars("Lieu")), RLitI(Chars("Site"))>>), RStar(Ws), ColonDash,
           RStar(Ws), RGroup(1, RPlus(RDot)), REol>>)

\* (date, lieu, equipe_dom, equipe_ext)
HeaderOf(date_match, team_match, lieu_match, text) ==
    <<IF date_match # <<>> THEN Group(date_match[1], text, 1) ELSE None,
      IF lieu_match # <<>> THEN Strip(Group(lieu_match[1], text, 1)) ELSE None,
      IF team_match # <<>> THEN Strip(Group(team_match[1], text, 1)) ELSE None,
      IF team_match # <<>> THEN Strip(Group(team_match[1], text, 2)) ELSE None>>

find_header_info(text) ==
    HeaderOf(Search(date_re, text), Search(team_re, text), Search(lieu_re, text), text)

(***************************************************************************)
(* Lines and joins                                                         *)
(***************************************************************************)

\* The line boundaries of str.splitlines() among the modelled characters.
LineBreaks == {"\n", "\r", "\f"}

\* str.splitlines(): "\r\n" is one boundary; no empty last line.
SplitLines(s) ==
    LET n == Len(s)
        \* the indices that end a line: a break that is not the "\r" of "\r\n"
        IsEnd(i) == s[i] \in LineBreaks /\ ~(s[i] = "\r" /\ i < n /\ s[i + 1] = "\n")
        ends == {i \in 1..n : IsEnd(i)} \cup (IF n > 0 /\ ~IsEnd(n) THEN {n + 1} ELSE {})
        Start(e) == IF \E d \in ends : d < e
                    THEN 1 + CHOOSE d \in ends : d < e /\ \A c \in ends : c < e => c <= d
                    ELSE 1
        Stop(e) == IF e <= n /\ e > 1 /\ s[e] = "\n" /\ s[e - 1] = "\r" THEN e - 2 ELSE e - 1
        Nth(k) == CHOOSE e \in ends : Cardinality({d \in ends : d < e}) = k - 1
    IN  [k \in 1..Cardinality(ends) |-> SubSeq(s, Start(Nth(k)), Stop(Nth(k)))] \o <<>>

\* sep.join(parts)
RECURSIVE Join(_, _)
Join(parts, sep) ==
    IF parts = <<>> THEN <<>>
    ELSE IF Len(parts) = 1 THEN parts[1]
    ELSE parts[1] \o sep \o Join(Tail(parts), sep)

(***************************************************************************)
(* Table reconstructor: one detected row                                   *)
(***************************************************************************)

\* [c.strip() for c in raw_row if c and isinstance(c, str)]; a cell is a str
\* or None.
RECURSIVE StripCells(_)
StripCells(raw_row) ==
    IF raw_row = <<>> THEN <<>>
    ELSE IF Head(raw_row) = None \/ Head(raw_row) = <<>> THEN StripCells(Tail(raw_row))
    ELSE <<Strip(Head(raw_row))>> \o StripCells(Tail(raw_row))

\* Faulty variant of Candidates: the four-cell candidate is left out.
Candidates_no_label(cells) ==
    <<Join(cells, <<" ">>)>>
    \o (IF Len(cells) >= 3
        THEN <<cells[1] \o Chars(" - ") \o cells[2] \o <<" ">> \o cells[3]>>
        ELSE <<>>)

\* The reconstructed candidate lines of a row's cells, in the order tried.
Candidates(cells) ==
    <<Join(cells, <<" ">>)>>
    \o (IF Len(cells) >= 4
        THEN <<cells[1] \o <<" ">> \o cells[2] \o Chars(" - ") \o cells[3] \o <<" ">> \o cells[4]>>
        ELSE <<>>)
    \o (IF Len(cells) >= 3
        THEN <<cells[1] \o Chars(" - ") \o cells[2] \o <<" ">> \o cells[3]>>
        ELSE <<>>)

\* The loop over the candidates from cands[k]: the value of `parsed` after
\* each try_parse_line call, up to the first that is not None (the break).
RECURSIVE TryCandidates(_, _, _)
\* After cands[k] parsed to `parsed`: break, or go on with the next one.
Tried(parsed, cands, k, defaults) ==
    IF parsed # <<>> THEN <<parsed>>
    ELSE <<parsed>> \o TryCandidates(cands, k + 1, defaults)

TryCandidates(cands, k, defaults) ==
    IF k > Len(cands) THEN <<>>
    ELSE Tried(try_parse_line(cands[k], defaults), cands, k, defaults)

\* The rows the loop appends: the last `parsed`, when it is a row.
Appended(tried) == IF tried = <<>> THEN <<>> ELSE tried[Len(tried)]

\* The candidates of a detected row: none for a row that is skipped.
CandidatesOrNone(cells) == IF cells = <<>> THEN <<>> ELSE Candidates(cells)

RowCandidates(raw_row) ==
    IF raw_row = <<>> THEN <<>> ELSE CandidatesOrNone(StripCells(raw_row))

\* The body of the loop over a table's rows: the rows raw_row appends.
parse_raw_row(raw_row, defaults) ==
    Appended(TryCandidates(RowCandidates(raw_row), 1, defaults))

\* The rows of the tables one extract_tables call returned.
RECURSIVE RowsOfTable(_, _)
RowsOfTable(tbl, defaults) ==
    IF tbl = <<>> THEN <<>>
    ELSE parse_raw_row(Head(tbl), defaults) \o RowsOfTable(Tail(tbl), defaults)

RECURSIVE RowsOfTables(_, _)
RowsOfTables(tables, defaults) ==
    IF tables = <<>> THEN <<>>
    ELSE RowsOfTable(Head(tables), defaults) \o RowsOfTables(Tail(tables), defaults)

(***************************************************************************)
(* main: merge and fallback                                                *)
(***************************************************************************)

\* Faulty variant of merge: every row is appended, no key is looked up.
merge_all(text_rows, table_rows) ==
    [k \in 1..(Len(text_rows) + Len(table_rows)) |-> k] \o <<>>

\* Faulty variant of merge: the loop runs over table_rows + text_rows.
merge_tables_first(text_rows, table_rows) ==
    LET kept == KeptFrom(table_rows \o text_rows, 1, <<>>, {})
    IN  [k \in 1..Len(kept) |->
            IF kept[k] <= Len(table_rows) THEN Len(text_rows) + kept[k]
            ELSE kept[k] - Len(table_rows)] \o <<>>

\* The merge loop over text_rows + table_rows: the indices, in the
\* concatenation, of the rows it appends to all_rows.
merge(text_rows, table_rows) == KeptFrom(text_rows \o table_rows, 1, <<>>, {})

\* Faulty variant of Placeholder: the header defaults are left out.
Placeholder_blank(defaults) ==
    MatchRow(None, None, None, None, None, None, None, None, None)

\* The one-line header row written when nothing was parsed.
Placeholder(defaults) ==
    MatchRow(defaults[1], defaults[2], defaults[3], defaults[4], None, None, None, None, None)

\* Faulty variant of fallback: an empty list is left empty.
fallback_none(all_rows, defaults) == all_rows

\* `if not all_rows: all_rows = [placeholder]`
fallback(all_rows, defaults) == IF all_rows = <<>> THEN <<Placeholder(defaults)>> ELSE all_rows

\* Faulty variant of usage_error: one argument is taken to be enough.
usage_error_one_arg(argc) == argc < 2

\* `len(sys.argv) < 3`
usage_error(argc) == argc < 3


(***************************************************************************)
(* Bounds and the inputs drawn from them                                   *)
(***************************************************************************)

\* Pages of the PDF document.
MaxPages == 2
\* Cells of a detected table row.
MaxCells == 4
\* Characters of a raw text given to the normalizer on its own.
MaxTextLen == 5

\* The geometry strategies tried on each page, in order: "lines", "text".
NumStrategies == 2

\* What extract_tables does for one (page, strategy): it raises, or returns a
\* list of tables, a table a list of rows, a row a list of cells (str or None).
Raises == [raises |-> TRUE, tables |-> <<>>]
Returns(tables) == [raises |-> FALSE, tables |-> tables]

\* A page: what extract_text returns for it (a str or None) and what
\* extract_tables does under each strategy.
Page(txt, by_lines, by_text) == [text |-> txt, tables |-> <<by_lines, by_text>>]

\* A blank page.
PageBlank == Page(None, Returns(<<>>), Returns(<<>>))

\* Text that no rule matches and that holds no header.
PageJunk ==
    Page(Chars(" x \t y "), Raises, Returns(<< <<>>, << <<Chars("x"), Chars("y")>> >> >>))

\* A header and nothing else; table detection fails.
PageHeader == Page(Chars("12/03/2024\nSite- H "), Raises, Raises)

\* A match sheet in running text, found again as a table by text alignment.
PageSheet ==
    Page(Chars("Lieu : G\nS1 a - b 6-1\r\nc - d 6-2\nS1: a vs b  6-1"),
         Returns(<<>>),
         Returns(<< << <<Chars("S1"), Chars("a"), Chars("-"), Chars("b"), Chars("6-1")>>,
                       <<Chars("c"), Chars("-"), Chars("d"), Chars("6-2")>>,
                       <<Chars("D"), Chars("x"), Chars("y"), Chars("6-3")>> >> >>))

\* A ruled grid, found by both strategies; its text has no separators.
GridTable ==
    << <<>>,
       <<Chars("S1"), None, Chars(" a"), <<>>, Chars("b"), Chars("6-1")>>,
       <<None, <<>>>>,
       <<Chars("D"), Chars("x"), Chars("y"), Chars("6-3")>> >>
PageGrid ==
    Page(Chars("S1 a b 6-1\nD x y 6-3"), Returns(<<GridTable>>), Returns(<<GridTable>>))

\* A three-cell grid found by ruling lines; detection by text alignment fails.
PageSmallGrid ==
    Page(Chars("c d 6-2"),
         Returns(<< << <<Chars("c"), Chars("d"), Chars("6-2")>>, <<Chars("e"), Chars("f")>> >> >>),
         Raises)

Pages == {PageBlank, PageJunk, PageHeader, PageSheet, PageGrid, PageSmallGrid}

\* The documents fetch_pdf_bytes can return.
Documents == UNION { [1..n -> Pages] : n \in 0..MaxPages }

\* The cells of the rows given to the reconstructor on their own.
CellUniverse == {None, Chars("S1"), Chars("D"), Chars("a"), Chars("-"), Chars("6-1")}

\* Scenario 5 of the specification.
Scenario5Row == <<Chars("S1"), Chars("Alice"), Chars("Bob"), Chars("6-1 6-2")>>

RawRows == UNION { [1..n -> CellUniverse] : n \in 0..MaxCells } \cup {Scenario5Row}

\* The characters of the raw texts given to the normalizer on its own.
CleanAlphabet == {" ", "\t", "\n", "\r", NBSP, "a"}

RawTexts == UNION { [1..n -> CleanAlphabet] : n \in 0..MaxTextLen }

\* The header defaults of the rows reconstructed on their own.
RuleDefaults == <<Chars("12/03/2024"), None, Chars("A"), Chars("B")>>

(***************************************************************************)
(* State                                                                   *)
(***************************************************************************)

VARIABLES
    pc,          \* where main is
    argc,        \* len(sys.argv)
    pdf_bytes,   \* the fetched document, as its pages
    raw_text,    \* extract_text_from_pdf's result
    text,        \* clean_text(raw_text)
    defaults,    \* find_header_info's tuple
    lines,       \* parse_matches: text.splitlines()
    li,          \* parse_matches: index of the next line
    rows,        \* parse_matches: rows appended so far
    text_rows,   \* parse_matches' result
    tp,          \* parse_matches_from_tables: index of the current page
    ts,          \* parse_matches_from_tables: index of the next strategy on it
    trows,       \* parse_matches_from_tables: rows appended so far
    tlog,        \* what each extract_tables call did, in call order
    table_rows,  \* parse_matches_from_tables' result
    merged_src,  \* the merge loop: where in text_rows + table_rows each kept row is
    merged,      \* all_rows after the merge loop
    all_rows,    \* all_rows after the fallback
    written,     \* the row lists handed to write_excel
    stdout,      \* what was printed
    exit_code,   \* main's return value (-1: none yet, 1: unhandled exception)
    io,          \* the I/O operations attempted, in order
    rr_mode,     \* a row on its own: "init", then "line" or "table"
    rr_row,      \* a row on its own: the detected cells
    rr_cands,    \* a row on its own: the lines / candidates matched
    rr_out,      \* a row on its own: what each of rr_cands parsed to
    rr_rows,     \* a row on its own: the rows appended for it
    norm_in,     \* a text on its own: the raw text
    norm_out     \* a text on its own: the successive clean_text results

main_vars ==
    <<pc, argc, pdf_bytes, raw_text, text, defaults, lines, li, rows, text_rows, tp, ts,
      trows, tlog, table_rows, merged_src, merged, all_rows, written, stdout, exit_code, io>>
rule_vars == <<rr_mode, rr_row, rr_cands, rr_out, rr_rows>>
norm_vars == <<norm_in, norm_out>>
vars == <<main_vars, rule_vars, norm_vars>>

NoDefaults == <<None, None, None, None>>

\* main before it does anything, started with argument vector length n.
MainAt(n) ==
    /\ argc = n /\ pdf_bytes = <<>>
    /\ raw_text = <<>> /\ text = <<>> /\ defaults = NoDefaults
    /\ lines = <<>> /\ li = 1 /\ rows = <<>> /\ text_rows = <<>>
    /\ tp = 1 /\ ts = 1 /\ trows = <<>> /\ tlog = <<>> /\ table_rows = <<>>
    /\ merged_src = <<>> /\ merged = <<>> /\ all_rows = <<>> /\ written = <<>>
    /\ stdout = <<>> /\ exit_code = -1 /\ io = <<>>

MainIdle == pc = "idle" /\ MainAt(0)

RuleIdle ==
    rr_mode = "idle" /\ rr_row = <<>> /\ rr_cands = <<>> /\ rr_out = <<>> /\ rr_rows = <<>>

NormIdle == norm_in = <<>> /\ norm_out = <<>>

(***************************************************************************)
(* main                                                                    *)
(***************************************************************************)

\* len(sys.argv): the program name and up to three arguments.
MainInit == pc = "start" /\ \E n \in 1..4 : MainAt(n)

\* The usage check: print the usage message, return 2.
Usage ==
    /\ pc = "start" /\ usage_error(argc)
    /\ stdout' = Append(stdout, "usage")
    /\ exit_code' = 2
    /\ pc' = "done"
    /\ UNCHANGED <<argc, pdf_bytes, raw_text, text, defaults, lines, li, rows, text_rows, tp,
                   ts, trows, tlog, table_rows, merged_src, merged, all_rows, written, io>>
    /\ UNCHANGED <<rule_vars, norm_vars>>

\* fetch_pdf_bytes returns the bytes of some document.
FetchOk ==
    /\ pc = "start" /\ ~usage_error(argc)
    /\ pdf_bytes' \in Documents
    /\ io' = Append(io, "fetch")
    /\ pc' = "extract"
    /\ UNCHANGED <<argc, raw_text, text, defaults, lines, li, rows, text_rows, tp, ts, trows,
                   tlog, table_rows, merged_src, merged, all_rows, written, stdout, exit_code>>
    /\ UNCHANGED <<rule_vars, norm_vars>>

\* fetch_pdf_bytes raises (no such file, HTTP error status): not handled.
FetchRaises ==
    /\ pc = "start" /\ ~usage_error(argc)
    /\ io' = Append(io, "fetch")
    /\ exit_code' = 1
    /\ pc' = "raised"
    /\ UNCHANGED <<argc, pdf_bytes, raw_text, text, defaults, lines, li, rows, text_rows, tp,
                   ts, trows, tlog, table_rows, merged_src, merged, all_rows, written, stdout>>
    /\ UNCHANGED <<rule_vars, norm_vars>>

\* extract_text_from_pdf: each page's text or "", joined by newlines.
extract_text_from_pdf(doc) ==
    Join([k \in 1..Len(doc) |-> OrElse(doc[k].text, <<>>)] \o <<>>, <<"\n">>)

ExtractText ==
    /\ pc = "extract"
    /\ raw_text' = extract_text_from_pdf(pdf_bytes)
    /\ io' = Append(io, "extract_text")
    /\ pc' = "clean"
    /\ UNCHANGED <<argc, pdf_bytes, text, defaults, lines, li, rows, text_rows, tp, ts, trows,
                   tlog, table_rows, merged_src, merged, all_rows, written, stdout, exit_code>>
    /\ UNCHANGED <<rule_vars, norm_vars>>

Clean ==
    /\ pc = "clean"
    /\ text' = clean_text(raw_text)
    /\ pc' = IF argc >= 4 THEN "dump" ELSE "header"
    /\ UNCHANGED <<argc, pdf_bytes, raw_text, defaults, lines, li, rows, text_rows, tp, ts,
                   trows, tlog, table_rows, merged_src, merged, all_rows, written, stdout, exit_code, io>>
    /\ UNCHANGED <<rule_vars, norm_vars>>

\* The optional dump of the cleaned text; a failure to write it is ignored.
Dump ==
    /\ pc = "dump"
    /\ \E ok \in BOOLEAN : io' = Append(io, IF ok THEN "dump" ELSE "dump_failed")
    /\ pc' = "header"
    /\ UNCHANGED <<argc, pdf_bytes, raw_text, text, defaults, lines, li, rows, text_rows, tp,
                   ts, trows, tlog, table_rows, merged_src, merged, all_rows, written, stdout, exit_code>>
    /\ UNCHANGED <<rule_vars, norm_vars>>

\* find_header_info, then parse_matches up to its loop.
Header ==
    /\ pc = "header"
    /\ defaults' = find_header_info(text)
    /\ lines' = SplitLines(text)
    /\ li' = 1
    /\ rows' = <<>>
    /\ pc' = "parse"
    /\ UNCHANGED <<argc, pdf_bytes, raw_text, text, text_rows, tp, ts, trows, tlog,
                   table_rows, merged_src, merged, all_rows, written, stdout, exit_code, io>>
    /\ UNCHANGED <<rule_vars, norm_vars>>

\* One iteration of parse_matches' loop over the lines.
ParseLine ==
    /\ pc = "parse" /\ li <= Len(lines)
    /\ rows' = rows \o parse_line(lines[li], defaults)
    /\ li' = li + 1
    /\ UNCHANGED <<pc, argc, pdf_bytes, raw_text, text, defaults, lines, text_rows, tp, ts,
                   trows, tlog, table_rows, merged_src, merged, all_rows, written, stdout, exit_code, io>>
    /\ UNCHANGED <<rule_vars, norm_vars>>

\* The end of parse_matches: dedup and return; parse_matches_from_tables
\* then opens the document.
ParseReturn ==
    /\ pc = "parse" /\ li > Len(lines)
    /\ text_rows' = Uniq(rows)
    /\ tp' = 1 /\ ts' = 1 /\ trows' = <<>> /\ tlog' = <<>>
    /\ io' = Append(io, "extract_tables")
    /\ pc' = "tables"
    /\ UNCHANGED <<argc, pdf_bytes, raw_text, text, defaults, lines, li, rows, table_rows,
                   merged_src, merged, all_rows, written, stdout, exit_code>>
    /\ UNCHANGED <<rule_vars, norm_vars>>

\* Faulty variant of on_extract_error: no except clause, the error goes up.
on_extract_error_propagates == [tables |-> <<>>, pc |-> "raised"]

\* `except Exception: tables = []`: the tables of an extract_tables call that
\* raised, and where parse_matches_from_tables goes on from.
on_extract_error == [tables |-> <<>>, pc |-> "tables"]

\* The (page, strategy) after (tp, ts) in the nested loops.
NextPage == IF ts = NumStrategies THEN tp + 1 ELSE tp
NextStrategy == IF ts = NumStrategies THEN 1 ELSE ts + 1

\* page.extract_tables(table_settings=settings) for the current pair.
Extracted == pdf_bytes[tp].tables[ts]

\* One (page, strategy) iteration whose extract_tables call returns.
ExtractTablesOk ==
    /\ pc = "tables" /\ tp <= Len(pdf_bytes) /\ ~Extracted.raises
    /\ tlog' = Append(tlog, [page |-> tp, strategy |-> ts, raised |-> FALSE,
                             tables |-> Extracted.tables,
                             rows |-> RowsOfTables(Extracted.tables, defaults)])
    /\ trows' = trows \o tlog'[Len(tlog')].rows
    /\ tp' = NextPage /\ ts' = NextStrategy
    /\ UNCHANGED <<pc, argc, pdf_bytes, raw_text, text, defaults, lines, li, rows, text_rows,
                   table_rows, merged_src, merged, all_rows, written, stdout, exit_code, io>>
    /\ UNCHANGED <<rule_vars, norm_vars>>

\* One (page, strategy) iteration whose extract_tables call raises.
ExtractTablesRaises ==
    /\ pc = "tables" /\ tp <= Len(pdf_bytes) /\ Extracted.raises
    /\ tlog' = Append(tlog, [page |-> tp, strategy |-> ts, raised |-> TRUE,
                             tables |-> on_extract_error.tables,
                             rows |-> RowsOfTables(on_extract_error.tables, defaults)])
    /\ trows' = trows \o tlog'[Len(tlog')].rows
    /\ tp' = NextPage /\ ts' = NextStrategy
    /\ pc' = on_extract_error.pc
    /\ exit_code' = IF on_extract_error.pc = "raised" THEN 1 ELSE exit_code
    /\ UNCHANGED <<argc, pdf_bytes, raw_text, text, defaults, lines, li, rows, text_rows,
                   table_rows, merged_src, merged, all_rows, written, stdout, io>>
    /\ UNCHANGED <<rule_vars, norm_vars>>

\* The end of parse_matches_from_tables: dedup and return.
TablesReturn ==
    /\ pc = "tables" /\ tp > Len(pdf_bytes)
    /\ table_rows' = Uniq(trows)
    /\ pc' = "merge"
    /\ UNCHANGED <<argc, pdf_bytes, raw_text, text, defaults, lines, li, rows, text_rows, tp,
                   ts, trows, tlog, merged_src, merged, all_rows, written, stdout, exit_code, io>>
    /\ UNCHANGED <<rule_vars, norm_vars>>

Merge ==
    /\ pc = "merge"
    /\ merged_src' = merge(text_rows, table_rows)
    /\ merged' = Pick(text_rows \o table_rows, merged_src')
    /\ pc' = "fallback"
    /\ UNCHANGED <<argc, pdf_bytes, raw_text, text, defaults, lines, li, rows, text_rows, tp,
                   ts, trows, tlog, table_rows, all_rows, written, stdout, exit_code, io>>
    /\ UNCHANGED <<rule_vars, norm_vars>>

Fallback ==
    /\ pc = "fallback"
    /\ all_rows' = fallback(merged, defaults)
    /\ pc' = "write"
    /\ UNCHANGED <<argc, pdf_bytes, raw_text, text, defaults, lines, li, rows, text_rows, tp,
                   ts, trows, tlog, table_rows, merged_src, merged, written, stdout, exit_code, io>>
    /\ UNCHANGED <<rule_vars, norm_vars>>

\* write_excel(all_rows, out_path) returns; main prints and returns 0.
WriteOk ==
    /\ pc = "write"
    /\ written' = Append(written, all_rows)
    /\ io' = Append(io, "write_excel")
    /\ stdout' = Append(stdout, "wrote")
    /\ exit_code' = 0
    /\ pc' = "done"
    /\ UNCHANGED <<argc, pdf_bytes, raw_text, text, defaults, lines, li, rows, text_rows, tp,
                   ts, trows, tlog, table_rows, merged_src, merged, all_rows>>
    /\ UNCHANGED <<rule_vars, norm_vars>>

\* write_excel raises (the output path cannot be written): not handled.
WriteRaises ==
    /\ pc = "write"
    /\ written' = Append(written, all_rows)
    /\ io' = Append(io, "write_excel")
    /\ exit_code' = 1
    /\ pc' = "raised"
    /\ UNCHANGED <<argc, pdf_bytes, raw_text, text, defaults, lines, li, rows, text_rows, tp,
                   ts, trows, tlog, table_rows, merged_src, merged, all_rows, stdout>>
    /\ UNCHANGED <<rule_vars, norm_vars>>

Init == MainInit /\ RuleIdle /\ NormIdle

Next ==
    \/ Usage \/ FetchOk \/ FetchRaises \/ ExtractText \/ Clean \/ Dump \/ Header
    \/ ParseLine \/ ParseReturn \/ ExtractTablesOk \/ ExtractTablesRaises \/ TablesReturn
    \/ Merge \/ Fallback \/ WriteOk \/ WriteRaises

Spec == Init /\ [][Next]_vars

(***************************************************************************)
(* The table reconstructor and the line matcher on one row                 *)
(***************************************************************************)

RulesInit ==
    /\ MainIdle /\ NormIdle
    /\ rr_mode = "init" /\ rr_row \in RawRows
    /\ rr_cands = <<>> /\ rr_out = <<>> /\ rr_rows = <<>>

\* The row as a detected table row: its candidates, what try_parse_line
\* makes of each one tried, and the rows the reconstructor appends for it.
ReconstructRow ==
    /\ rr_mode = "init"
    /\ rr_mode' = "table"
    /\ rr_cands' = RowCandidates(rr_row)
    /\ rr_out' = TryCandidates(rr_cands', 1, RuleDefaults)
    /\ rr_rows' = Appended(rr_out')
    /\ UNCHANGED rr_row
    /\ UNCHANGED <<main_vars, norm_vars>>

\* The row as a line of the page text (its cells space-joined): what the
\* body of parse_matches' loop makes of it.
MatchLine ==
    /\ rr_mode = "init"
    /\ rr_mode' = "line"
    /\ rr_cands' = <<Join(StripCells(rr_row), <<" ">>)>>
    /\ rr_out' = <<parse_line(rr_cands'[1], RuleDefaults)>>
    /\ rr_rows' = rr_out'[1]
    /\ UNCHANGED rr_row
    /\ UNCHANGED <<main_vars, norm_vars>>

RulesNext == ReconstructRow \/ MatchLine

SpecRules == RulesInit /\ [][RulesNext]_vars

(***************************************************************************)
(* The normalizer on one text                                              *)
(***************************************************************************)

NormInit == MainIdle /\ RuleIdle /\ norm_in \in RawTexts /\ norm_out = <<>>

Normalize ==
    /\ norm_out = <<>>
    /\ norm_out' = <<clean_text(norm_in)>>
    /\ UNCHANGED norm_in
    /\ UNCHANGED <<main_vars, rule_vars>>

NormalizeAgain ==
    /\ Len(norm_out) = 1
    /\ norm_out' = Append(norm_out, clean_text(norm_out[1]))
    /\ UNCHANGED norm_in
    /\ UNCHANGED <<main_vars, rule_vars>>

NormNext == Normalize \/ NormalizeAgain

SpecClean == NormInit /\ [][NormNext]_vars

(***************************************************************************)
(* Properties                                                              *)
(***************************************************************************)

\* The five fields of the composite key, as the row holds them.
CompositeKey(r) == <<r.match_type, r.match_index, r.joueur_dom, r.joueur_ext, r.score>>

\* The indices of rs that hold the first occurrence of their composite key.
FirstOccurrences(rs) ==
    {i \in 1..Len(rs) : \A j \in 1..(i - 1) : CompositeKey(rs[j]) # CompositeKey(rs[i])}

\* The k-th smallest element of a set of numbers.
NthOf(S, k) == CHOOSE i \in S : Cardinality({j \in S : j < i}) = k - 1

\* The subsequence of rs at the indices of S.
Restrict(rs, S) == [k \in 1..Cardinality(S) |-> rs[NthOf(S, k)]] \o <<>>

\* main is past write_excel's call, whether it returned or raised.
WriteCalled == written # <<>>

\* parse_matches has just returned; parse_matches_from_tables has.
ParseReturned == pc = "tables" /\ tlog = <<>>
TablesReturned == pc = "merge"
MergeDone == pc \in {"fallback", "write"} \/ WriteCalled
FallbackDone == pc = "write" \/ WriteCalled

\* C1: after the merge step no two rows of the merged list have the same
\* composite key (match_type, match_index, joueur_dom, joueur_ext, score):
\* of the rows of the two strategies that agree on these five fields at most
\* one is in the output.
C1_MergeKeysUnique ==
    MergeDone =>
        \A i, j \in 1..Len(merged) :
            i # j => CompositeKey(merged[i]) # CompositeKey(merged[j])

\* A merge that dropped a duplicate and kept two rows or more.
C1_Witness ==
    /\ MergeDone
    /\ Len(merged) >= 2
    /\ Len(text_rows) + Len(table_rows) > Len(merged)

\* C2: the merged list is the subsequence of text_rows followed by
\* table_rows made of the first occurrence of each composite key, in the same
\* relative order; a key that occurs in both lists survives as the row of
\* text_rows.
C2_MergeStable ==
    MergeDone =>
        LET all == text_rows \o table_rows
            first == FirstOccurrences(all)
        IN  /\ Len(merged_src) = Cardinality(first)
            /\ Len(merged) = Len(merged_src)
            /\ \A k \in 1..Len(merged_src) :
                /\ merged_src[k] \in first
                /\ merged[k] = all[merged_src[k]]
                /\ k > 1 => merged_src[k - 1] < merged_src[k]
                /\ (\E i \in 1..Len(text_rows) :
                        CompositeKey(text_rows[i]) = CompositeKey(merged[k]))
                   => merged_src[k] <= Len(text_rows)

\* A merge in which a key of text_rows comes again in table_rows, next to a
\* row that only table_rows holds.
C2_Witness ==
    /\ MergeDone
    /\ \E i \in 1..Len(text_rows) : \E j \in 1..Len(table_rows) :
            CompositeKey(text_rows[i]) = CompositeKey(table_rows[j])
    /\ \E k \in 1..Len(merged_src) : merged_src[k] > Len(text_rows)

\* C3: every row list handed to write_excel holds at least one row, also
\* when no line and no table row matches a rule.
C3_NeverEmpty == \A k \in 1..Len(written) : Len(written[k]) >= 1

\* write_excel called for a non-empty text in which nothing matched.
C3_Witness == written # <<>> /\ text # <<>> /\ text_rows = <<>> /\ table_rows = <<>>

\* The row with the given header fields and the five match fields null.
HeaderOnly(date, lieu, equipe_dom, equipe_ext) ==
    [date |-> date, lieu |-> lieu, equipe_dom |-> equipe_dom, equipe_ext |-> equipe_ext,
     match_type |-> None, match_index |-> None,
     joueur_dom |-> None, joueur_ext |-> None, score |-> None]

NoMatchFields(r) == CompositeKey(r) = <<None, None, None, None, None>>

\* C4: the output is one placeholder row (the header defaults, the five
\* match fields null) if and only if the merged list is empty, and is the
\* merged list, without a placeholder row, otherwise; with no header found
\* and nothing parsed it is one row of nine nulls.
C4_PlaceholderFallback ==
    FallbackDone =>
        /\ merged = <<>> =>
              all_rows = <<HeaderOnly(defaults[1], defaults[2], defaults[3], defaults[4])>>
        /\ merged # <<>> => all_rows = merged
        /\ (\E k \in 1..Len(all_rows) : NoMatchFields(all_rows[k])) <=> merged = <<>>
        /\ (merged = <<>> /\ defaults = NoDefaults) =>
              all_rows = <<HeaderOnly(None, None, None, None)>>

\* A finished fallback with a header found and nothing parsed.
C4_Witness ==
    /\ FallbackDone
    /\ merged = <<>>
    /\ defaults[1] # None /\ defaults[2] # None
    /\ Len(all_rows) = 1

Scenario5Candidate == Chars("S1 Alice - Bob 6-1 6-2")

ReconstructedScenario5 == rr_mode = "table" /\ rr_row = Scenario5Row

\* C5 (as the code has it): the row of cells "S1", "Alice", "Bob", "6-1 6-2"
\* matches no rule as the joined candidate; its second candidate is
\* "S1 Alice - Bob 6-1 6-2", which the Simple rule matches before the generic
\* rule is tried: one row, match_type "Simple", match_index "1",
\* joueur_dom "Alice", joueur_ext "Bob", score "6-1 6-2".
C5_Scenario5Simple ==
    ReconstructedScenario5 =>
        /\ Len(rr_out) = 2
        /\ rr_out[1] = <<>>
        /\ rr_cands[2] = Scenario5Candidate
        /\ rr_rows =
              <<[date |-> RuleDefaults[1], lieu |-> RuleDefaults[2],
                 equipe_dom |-> RuleDefaults[3], equipe_ext |-> RuleDefaults[4],
                 match_type |-> Chars("Simple"), match_index |-> Chars("1"),
                 joueur_dom |-> Chars("Alice"), joueur_ext |-> Chars("Bob"),
                 score |-> Chars("6-1 6-2")]>>

\* The scenario's row, reconstructed into one row.
C5_Witness == ReconstructedScenario5 /\ Len(rr_rows) = 1 /\ Len(rr_cands) = 3

\* C5 as stated: the row comes from the generic rule, with joueur_dom
\* "Alice", joueur_ext "Bob", score "6-1 6-2" and match_type and match_index
\* null.
C5_Scenario5Generic ==
    ReconstructedScenario5 =>
        /\ Len(rr_rows) = 1
        /\ rr_rows[1].joueur_dom = Chars("Alice")
        /\ rr_rows[1].joueur_ext = Chars("Bob")
        /\ rr_rows[1].score = Chars("6-1 6-2")
        /\ rr_rows[1].match_type = None
        /\ rr_rows[1].match_index = None

\* The (page, strategy) of the n-th extract_tables call of a run.
PairPage(n) == ((n - 1) \div NumStrategies) + 1
PairStrategy(n) == ((n - 1) % NumStrategies) + 1

\* What the n-th call finds in a run on doc in which a call that would raise
\* returns no tables instead.
FoundOrNothing(doc, n) ==
    IF doc[PairPage(n)].tables[PairStrategy(n)].raises THEN <<>>
    ELSE doc[PairPage(n)].tables[PairStrategy(n)].tables

\* C6: an extract_tables call that raises does not end the run, counts as
\* having found no tables, is followed by every remaining strategy of the
\* page and every remaining page, and the rows returned are those of a run
\* in which that call returned no tables.
C6_DetectionFailureLocal ==
    /\ pc = "raised" => io[Len(io)] \in {"fetch", "write_excel"}
    /\ \A n \in 1..Len(tlog) :
        /\ tlog[n].page = PairPage(n) /\ tlog[n].strategy = PairStrategy(n)
        /\ tlog[n].raised = pdf_bytes[PairPage(n)].tables[PairStrategy(n)].raises
        /\ tlog[n].tables = FoundOrNothing(pdf_bytes, n)
    /\ TablesReturned =>
        /\ Len(tlog) = NumStrategies * Len(pdf_bytes)
        /\ table_rows =
              Uniq(Flatten([n \in 1..Len(tlog) |->
                               RowsOfTables(FoundOrNothing(pdf_bytes, n), defaults)] \o <<>>,
                           1, Len(tlog)))

\* A finished run in which a call raised and a later call found a row.
C6_Witness ==
    /\ pc = "done" /\ exit_code = 0
    /\ \E n \in 1..Len(tlog) : \E m \in (n + 1)..Len(tlog) :
            tlog[n].raised /\ ~tlog[m].raised /\ tlog[m].rows # <<>>

\* C7: with fewer than two positional arguments main prints the usage
\* message, returns 2 and does nothing else (no fetch, no PDF parsing, no
\* dump, no spreadsheet); with two or more a run that completes returns 0.
C7_UsageError ==
    /\ argc < 3 =>
        /\ pc \in {"start", "done"}
        /\ io = <<>> /\ written = <<>> /\ pdf_bytes = <<>>
        /\ pc = "done" => exit_code = 2 /\ stdout = <<"usage">>
    /\ (argc >= 3 /\ pc = "done") => exit_code = 0 /\ stdout = <<"wrote">>

\* A run with one positional argument, ended.
C7_Witness == argc = 2 /\ pc = "done" /\ exit_code = 2

\* C8: clean_text returns a string for every string, the empty one
\* included, and clean_text(clean_text(t)) = clean_text(t).
C8_CleanIdempotent ==
    /\ \A k \in 1..Len(norm_out) :
        /\ norm_out[k] \in Seq(CleanAlphabet)
        /\ Len(norm_out[k]) <= Len(norm_in)
    /\ Len(norm_out) = 2 => norm_out[2] = norm_out[1]

\* A text the normalizer changed, and did not empty, normalized twice.
C8_Witness ==
    /\ Len(norm_out) = 2
    /\ norm_out[1] # norm_in
    /\ norm_out[1] # <<>>

\* Whether a rule matches the stripped, non-blank line l.
SimpleMatches(l) == Search(single_re, l) # <<>>
DoubleMatches(l) == Search(double_re, l) # <<>>
GenericMatches(l) == Search(table_row_re, l) # <<>>

\* The lines of the text that are not blank and match a rule.
MatchedLines ==
    {k \in 1..Len(lines) :
        /\ Strip(lines[k]) # <<>>
        /\ \/ SimpleMatches(Strip(lines[k]))
           \/ DoubleMatches(Strip(lines[k]))
           \/ GenericMatches(Strip(lines[k]))}

\* C9 (as the code has it): parse_matches builds one row per non-blank line
\* that matches a rule, in line order, and returns of these the first row of
\* each composite key, in the same order: a matching line whose type, index,
\* players and score an earlier line already gave adds no row.
C9_OneRowPerKey ==
    ParseReturned =>
        /\ Len(rows) = Cardinality(MatchedLines)
        /\ \A k \in 1..Len(rows) :
              <<rows[k]>> = parse_line(lines[NthOf(MatchedLines, k)], defaults)
        /\ text_rows = Restrict(rows, FirstOccurrences(rows))

\* A text in which a matching line repeats the key of an earlier one.
C9_Witness == ParseReturned /\ Len(text_rows) >= 2 /\ Len(rows) > Len(text_rows)

\* C9 as stated: the list returned has as many rows as there are matching
\* lines, the i-th row built from the i-th matching line.
C9_OneRowPerLine ==
    ParseReturned =>
        /\ Len(text_rows) = Cardinality(MatchedLines)
        /\ \A k \in 1..Len(text_rows) :
              <<text_rows[k]>> = parse_line(lines[NthOf(MatchedLines, k)], defaults)

\* The rules' priority on a non-blank line, given which rules match it:
\* `out` is the list of rows the line gave.
PriorityHolds(simple, double, generic, out) ==
    /\ Len(out) <= 1
    /\ simple => Len(out) = 1 /\ out[1].match_type = Chars("Simple")
    /\ (~simple /\ double) => Len(out) = 1 /\ out[1].match_type = Chars("Double")
    /\ (~simple /\ ~double /\ generic) =>
          Len(out) = 1 /\ out[1].match_type = None /\ out[1].match_index = None
    /\ (~simple /\ ~double /\ ~generic) => out = <<>>

\* The same on any line or candidate: a blank one gives no row.
FirstMatchWins(cand, out) ==
    IF Strip(cand) = <<>> THEN out = <<>>
    ELSE PriorityHolds(SimpleMatches(Strip(cand)), DoubleMatches(Strip(cand)),
                       GenericMatches(Strip(cand)), out)

\* C10: in the line matcher and in the table reconstructor alike, a line or
\* candidate gives at most one row: of type "Simple" whenever the Simple rule
\* matches, of type "Double" only when the Simple rule does not match and
\* the Double rule does, with null type and index only when neither keyword
\* rule matches and the generic rule does, and no row when no rule matches.
C10_FirstMatchWins ==
    rr_mode \in {"line", "table"} =>
        /\ Len(rr_out) <= Len(rr_cands)
        /\ \A k \in 1..Len(rr_out) : FirstMatchWins(rr_cands[k], rr_out[k])

\* A candidate of a table row that the Simple rule and the generic rule both
\* match.
C10_Witness ==
    /\ rr_mode = "table"
    /\ \E k \in 1..Len(rr_out) :
        /\ SimpleMatches(Strip(rr_cands[k]))
        /\ GenericMatches(Strip(rr_cands[k]))
        /\ rr_out[k] # <<>>

====
